---- MODULE Spec2Model ----
(***************************************************************************)
(* A model of getPlacement (packages/utilities/popper/src/index.ts): the   *)
(* positioning session that builds a middleware list, starts a             *)
(* computation with the geometry solver on every trigger, applies each     *)
(* resolved result to the floating element and returns a cleanup function. *)
(***************************************************************************)
EXTENDS Integers, Sequences, FiniteSets, TLC

(* ------------------------------------------------------------------ *)
(* Bounds of the model                                                 *)
(* ------------------------------------------------------------------ *)
MaxComputes == 2
MaxCleanupCalls == 2

(* ------------------------------------------------------------------ *)
(* JavaScript values of the option fields                              *)
(* ------------------------------------------------------------------ *)
\* a key the caller's object does not have
Absent == [t |-> "absent"]
\* a key the caller's object has with the value undefined
Undefined == [t |-> "undefined"]
Num(n) == [t |-> "number", n |-> n]
Bool(b) == [t |-> "boolean", b |-> b]
Str(s) == [t |-> "string", s |-> s]
Element(id) == [t |-> "element", id |-> id]
Fn(throws) == [t |-> "function", throws |-> throws]
OffsetObj(main, cross) == [t |-> "object", mainAxis |-> main, crossAxis |-> cross]
ArrowObj(el, pad) == [t |-> "object", element |-> el, padding |-> pad]
ListenersObj(scroll, resize) == [t |-> "object", scroll |-> scroll, resize |-> resize]

\* reading a missing key gives undefined
Read(v) == IF v.t = "absent" THEN Undefined ELSE v

\* JavaScript truthiness of the values above
Truthy(v) ==
  CASE v.t = "number" -> v.n # 0
    [] v.t = "boolean" -> v.b
    [] v.t = "string" -> v.s # ""
    [] v.t \in {"absent", "undefined"} -> FALSE
    [] OTHER -> TRUE

IsNullish(v) == v.t \in {"absent", "undefined"}

NULL == "null"

OptionKeys ==
  {"arrow", "strategy", "placement", "offset", "gutter", "flip", "sameWidth",
   "boundary", "eventListeners", "onPlacementComplete", "onCleanup"}

\* the caller's `options` argument when it is omitted: {}
EmptyOptions == [k \in OptionKeys |-> Absent]

DefaultGutter == 8
FlipPadding == 8
DefaultArrowPadding == 8

defaultOptions ==
  [EmptyOptions EXCEPT
     !.strategy = Str("absolute"),
     !.placement = Str("bottom"),
     !.eventListeners = Bool(TRUE),
     !.gutter = Num(DefaultGutter),
     !.flip = Bool(TRUE),
     !.boundary = Str("clippingParents"),
     !.sameWidth = Bool(FALSE)]

\* Object.assign({}, defaultOptions, options): every own key of the caller's
\* object (one set to undefined included) overrides the default
MergeOptions(user) ==
  [k \in OptionKeys |-> IF user[k].t # "absent" THEN user[k] ELSE defaultOptions[k]]

(* ------------------------------------------------------------------ *)
(* The middleware list                                                 *)
(* ------------------------------------------------------------------ *)
Mw(name, arg) == [name |-> name, arg |-> arg]

NoArg == Absent

\* (mutant) an explicit offset wins over the gutter
OffsetData_OffsetFirst(o) ==
  IF Truthy(o.offset) THEN Read(o.offset) ELSE OffsetObj(o.gutter, Absent)

\* the `data` the offset middleware is built with
OffsetData(o) ==
  IF Truthy(o.gutter) THEN OffsetObj(o.gutter, Absent) ELSE Read(o.offset)

ArrowPadding(a) == IF IsNullish(a.padding) THEN Num(DefaultArrowPadding) ELSE a.padding

HasArrowElement(o) ==
  IF o.arrow.t = "object" THEN Truthy(o.arrow.element) ELSE FALSE

\* (mutant) shift is pushed before the offset
BuildMiddleware_ShiftBeforeOffset(o) ==
  LET m0 == <<Mw("transformOrigin", NoArg)>>
      m1 == IF Truthy(o.flip)
              THEN Append(m0, Mw("flip", [boundary |-> Read(o.boundary), padding |-> Num(FlipPadding)]))
              ELSE m0
      m2 == Append(m1, Mw("shift", [boundary |-> Read(o.boundary)]))
      m3 == IF Truthy(o.gutter) \/ Truthy(o.offset)
              THEN Append(m2, Mw("offset", OffsetData(o)))
              ELSE m2
      m4 == IF HasArrowElement(o)
              THEN m3 \o <<Mw("arrow", [element |-> o.arrow.element, padding |-> ArrowPadding(o.arrow)]),
                           Mw("positionArrow", [element |-> o.arrow.element])>>
              ELSE m3
      m5 == IF Truthy(o.sameWidth) THEN Append(m4, Mw("size", NoArg)) ELSE m4
  IN m5

\* (mutant) the size middleware is pushed whatever sameWidth is
BuildMiddleware_SizeAlways(o) ==
  LET m0 == <<Mw("transformOrigin", NoArg)>>
      m1 == IF Truthy(o.flip)
              THEN Append(m0, Mw("flip", [boundary |-> Read(o.boundary), padding |-> Num(FlipPadding)]))
              ELSE m0
      m2 == IF Truthy(o.gutter) \/ Truthy(o.offset)
              THEN Append(m1, Mw("offset", OffsetData(o)))
              ELSE m1
      m3 == Append(m2, Mw("shift", [boundary |-> Read(o.boundary)]))
      m4 == IF HasArrowElement(o)
              THEN m3 \o <<Mw("arrow", [element |-> o.arrow.element, padding |-> ArrowPadding(o.arrow)]),
                           Mw("positionArrow", [element |-> o.arrow.element])>>
              ELSE m3
  IN Append(m4, Mw("size", NoArg))

\* the middleware list getPlacement builds
BuildMiddleware(o) ==
  LET m0 == <<Mw("transformOrigin", NoArg)>>
      m1 == IF Truthy(o.flip)
              THEN Append(m0, Mw("flip", [boundary |-> Read(o.boundary), padding |-> Num(FlipPadding)]))
              ELSE m0
      m2 == IF Truthy(o.gutter) \/ Truthy(o.offset)
              THEN Append(m1, Mw("offset", OffsetData(o)))
              ELSE m1
      m3 == Append(m2, Mw("shift", [boundary |-> Read(o.boundary)]))
      m4 == IF HasArrowElement(o)
              THEN m3 \o <<Mw("arrow", [element |-> o.arrow.element, padding |-> ArrowPadding(o.arrow)]),
                           Mw("positionArrow", [element |-> o.arrow.element])>>
              ELSE m3
      m5 == IF Truthy(o.sameWidth) THEN Append(m4, Mw("size", NoArg)) ELSE m4
  IN m5

(* ------------------------------------------------------------------ *)
(* Inputs                                                               *)
(* ------------------------------------------------------------------ *)
Window == "win"
\* every element a scroll event can be dispatched on
ScrollTargets == {Window, "scroller"}
\* what getScrollParents(reference) can return; the window is always the last entry
ScrollParentChoices == {<<Window>>, <<"scroller", Window>>}

Handles(id) == {NULL, id}

\* what the solver can resolve with, and the reference rect it reports to `size`
SolverResults ==
  {[x |-> 100, y |-> 128, placement |-> "bottom", referenceWidth |-> 200],
   [x |-> 100, y |-> 62, placement |-> "top", referenceWidth |-> 50]}

GutterValues == {Absent, Undefined, Num(0), Num(12)}
OffsetValues == {Absent, OffsetObj(Num(4), Num(2))}
FlipValues == {Absent, Bool(TRUE), Bool(FALSE)}
ArrowValues == {Absent, ArrowObj(Element("arrowEl"), Absent), ArrowObj(Absent, Num(4))}
SameWidthValues == {Absent, Bool(TRUE)}
BoundaryValues == {Absent, Element("boundaryEl")}
EventListenerValues ==
  {Absent, Undefined, Bool(TRUE), Bool(FALSE),
   ListenersObj(Bool(TRUE), Bool(FALSE)), ListenersObj(Bool(FALSE), Bool(TRUE)),
   ListenersObj(Absent, Absent)}
\* <<onCleanup, onPlacementComplete>>; an onCleanup with throws = TRUE throws when called
CallbackValues ==
  {<<Absent, Absent>>, <<Fn(FALSE), Fn(FALSE)>>, <<Fn(TRUE), Fn(FALSE)>>}

\* options that vary what the middleware list is built from
MiddlewareOptions ==
  {[EmptyOptions EXCEPT !.gutter = g, !.offset = f, !.flip = fl, !.arrow = a,
                        !.sameWidth = w, !.boundary = b,
                        !.eventListeners = Bool(FALSE)] :
     g \in GutterValues, f \in OffsetValues, fl \in FlipValues, a \in ArrowValues,
     w \in SameWidthValues, b \in BoundaryValues}

\* options that vary the triggers and the callbacks
SessionOptions ==
  {[EmptyOptions EXCEPT !.eventListeners = e, !.onCleanup = c[1],
                        !.onPlacementComplete = c[2]] :
     e \in EventListenerValues, c \in CallbackValues}

\* options that vary the middleware list of a session with triggers
TriggeredMiddlewareOptions ==
  {[EmptyOptions EXCEPT !.sameWidth = Bool(TRUE), !.onPlacementComplete = Fn(FALSE)],
   [EmptyOptions EXCEPT !.gutter = Num(0), !.offset = OffsetObj(Num(4), Num(2)),
                        !.flip = Bool(FALSE), !.arrow = ArrowObj(Element("arrowEl"), Num(4)),
                        !.sameWidth = Bool(TRUE), !.strategy = Str("fixed"),
                        !.onPlacementComplete = Fn(FALSE),
                        !.eventListeners = ListenersObj(Bool(TRUE), Absent)]}

UserOptions == MiddlewareOptions \cup SessionOptions \cup TriggeredMiddlewareOptions

(* ------------------------------------------------------------------ *)
(* State                                                                *)
(* ------------------------------------------------------------------ *)
VARIABLES
  reference,        \* the reference handle getPlacement was called with
  floating,         \* the floating handle getPlacement was called with
  userOptions,      \* the options argument of the call
  returned,         \* "none" before the call, then what it returned: "noop" or "cleanup"
  options,          \* the merged options of the session
  middleware,       \* the middleware list of the session
  comps,            \* the computations started, in start order
  microtasks,       \* the queued promise reactions
  style,            \* floating.style
  listeners,        \* <<target, type>> pairs `compute` is registered on
  observed,         \* whether observeElementRect(reference, compute) is active
  cleanups,         \* the array [addResizeListeners(), addScrollListeners()]
  domScrollParents, \* what getScrollParents(reference) returns now
  cleanupCalls,     \* number of invocations of the returned function
  onCleanupCalls,   \* number of invocations of options.onCleanup
  placementCalls,   \* the invocations of options.onPlacementComplete, in order
  unhandled,        \* computations whose promise chain ended rejected, unhandled
  lastCall          \* the handler that ran last and its effects, in order

vars ==
  <<reference, floating, userOptions, returned, options, middleware, comps, microtasks,
    style, listeners, observed, cleanups, domScrollParents, cleanupCalls,
    onCleanupCalls, placementCalls, unhandled, lastCall>>

Unwritten == ""
InitialStyle ==
  [left |-> Unwritten, top |-> Unwritten, position |-> Unwritten,
   width |-> Unwritten, minWidth |-> Unwritten]

NoData == [x |-> 0, y |-> 0, placement |-> "", referenceWidth |-> 0]

Call(op, target, effects, threw) ==
  [op |-> op, target |-> target, effects |-> effects, threw |-> threw]

Init ==
  /\ reference = NULL
  /\ floating = NULL
  /\ userOptions = EmptyOptions
  /\ returned = "none"
  /\ options = EmptyOptions
  /\ middleware = <<>>
  /\ comps = <<>>
  /\ microtasks = <<>>
  /\ style = InitialStyle
  /\ listeners = {}
  /\ observed = FALSE
  /\ cleanups = <<>>
  /\ domScrollParents \in ScrollParentChoices
  /\ cleanupCalls = 0
  /\ onCleanupCalls = 0
  /\ placementCalls = <<>>
  /\ unhandled = {}
  /\ lastCall = Call("none", "", <<>>, FALSE)

(* ------------------------------------------------------------------ *)
(* Helpers of the operations                                            *)
(* ------------------------------------------------------------------ *)
Px(n) == ToString(n) \o "px"

Names(mw) == [i \in DOMAIN mw |-> mw[i].name]

Range(f) == {f[i] : i \in DOMAIN f}

\* (mutant) only the reference is checked
HandleMissing_ReferenceOnly(ref, flo) == ref = NULL

\* getPlacement's guard: no session without both handles
HandleMissing(ref, flo) == ref = NULL \/ flo = NULL

\* compute(): one call of the solver, unless a handle is null
Compute(ref, flo, o, mw, cs) ==
  IF ref = NULL \/ flo = NULL
    THEN cs
    ELSE Append(cs, [args |-> [reference |-> ref, floating |-> flo,
                                 placement |-> Read(o.placement),
                                 middleware |-> mw,
                                 strategy |-> Read(o.strategy)],
                      state |-> "pending", data |-> NoData, written |-> FALSE])

ComputeEffects(ref, flo) ==
  IF ref = NULL \/ flo = NULL THEN <<>> ELSE << <<"computePosition", "">> >>

\* (mutant) addResizeListeners reads the scroll field
ResizeEnabled_ReadsScroll(o) ==
  LET e == o.eventListeners
  IN IF e.t = "boolean" THEN e.b
     ELSE IF e.t = "object" THEN Truthy(e.scroll) ELSE FALSE

\* the `enabled` of addResizeListeners
ResizeEnabled(o) ==
  LET e == o.eventListeners
  IN IF e.t = "boolean" THEN e.b
     ELSE IF e.t = "object" THEN Truthy(e.resize) ELSE FALSE

\* the `enabled` of addScrollListeners
ScrollEnabled(o) ==
  LET e == o.eventListeners
  IN IF e.t = "boolean" THEN e.b
     ELSE IF e.t = "object" THEN Truthy(e.scroll) ELSE FALSE

\* an entry of `cleanups`: undefined, or a function that detaches from `targets`
NoCleanup == [defined |-> FALSE, kind |-> "", targets |-> <<>>]
CleanupFn(kind, targets) == [defined |-> TRUE, kind |-> kind, targets |-> targets]

\* addResizeListeners(): what it returns
addResizeListeners(o) ==
  IF ~ResizeEnabled(o) THEN NoCleanup ELSE CleanupFn("resize", <<Window>>)

\* (mutant) only the nearest scroll parent is listened to
addScrollListeners_NearestOnly(o, ref, parents) ==
  IF ~ScrollEnabled(o) \/ ref = NULL THEN NoCleanup ELSE CleanupFn("scroll", <<Head(parents)>>)

\* addScrollListeners(): what it returns, the scroll parents being `parents`
addScrollListeners(o, ref, parents) ==
  IF ~ScrollEnabled(o) \/ ref = NULL THEN NoCleanup ELSE CleanupFn("scroll", parents)

\* the listener registrations an entry of `cleanups` stands for
Registrations(c) ==
  IF ~c.defined THEN {}
  ELSE {<<c.targets[i], c.kind>> : i \in DOMAIN c.targets}

\* (mutant) the scroll cleanup forgets the window
Detached_SkipsWindow(c) ==
  IF ~c.defined THEN {}
  ELSE {<<c.targets[i], c.kind>> : i \in {j \in DOMAIN c.targets : c.kind = "resize" \/ c.targets[j] # Window}}

\* the registrations the function an entry of `cleanups` holds removes
Detached(c) ==
  IF ~c.defined THEN {}
  ELSE {<<c.targets[i], c.kind>> : i \in DOMAIN c.targets}

AttachEffects(c) ==
  IF ~c.defined THEN <<>>
  ELSE IF c.kind = "resize"
    THEN << <<"observeElementRect", "reference">>, <<"addEventListener:resize", Window>> >>
    ELSE [i \in DOMAIN c.targets |-> <<"addEventListener:scroll", c.targets[i]>>]

DetachEffects(c) ==
  IF ~c.defined THEN <<>>
  ELSE IF c.kind = "resize"
    THEN << <<"removeEventListener:resize", Window>>, <<"unobserve", "reference">> >>
    ELSE [i \in DOMAIN c.targets |-> <<"removeEventListener:scroll", c.targets[i]>>]

\* (mutant) the listeners are attached before the first compute()
SessionStartEffects_ListenersFirst(ref, flo, cs) ==
  AttachEffects(cs[1]) \o AttachEffects(cs[2]) \o ComputeEffects(ref, flo)

\* the calls getPlacement makes once the middleware is built, in order
SessionStartEffects(ref, flo, cs) ==
  ComputeEffects(ref, flo) \o AttachEffects(cs[1]) \o AttachEffects(cs[2])

(* ------------------------------------------------------------------ *)
(* getPlacement(reference, floating, options)                           *)
(* ------------------------------------------------------------------ *)
GetPlacement(ref, flo, user) ==
  /\ returned = "none"
  /\ reference' = ref
  /\ floating' = flo
  /\ userOptions' = user
  /\ IF HandleMissing(ref, flo)
       THEN /\ returned' = "noop"
            /\ lastCall' = Call("getPlacement", "", <<>>, FALSE)
            /\ UNCHANGED <<options, middleware, comps, listeners, observed, cleanups>>
       ELSE LET o == MergeOptions(user)
                mw == BuildMiddleware(o)
                cs == <<addResizeListeners(o), addScrollListeners(o, ref, domScrollParents)>>
            IN /\ returned' = "cleanup"
               /\ options' = o
               /\ middleware' = mw
               /\ comps' = Compute(ref, flo, o, mw, comps)
               /\ cleanups' = cs
               /\ listeners' = listeners \cup Registrations(cs[1]) \cup Registrations(cs[2])
               /\ observed' = (observed \/ cs[1].defined)
               /\ lastCall' = Call("getPlacement", "", SessionStartEffects(ref, flo, cs), FALSE)
  /\ UNCHANGED <<microtasks, style, domScrollParents, cleanupCalls,
                 onCleanupCalls, placementCalls, unhandled>>

(* ------------------------------------------------------------------ *)
(* The triggers. An event that `compute` is not registered for runs no  *)
(* code of the session: it is a step that changes nothing.              *)
(* ------------------------------------------------------------------ *)
Trigger(op, target, registered) ==
  /\ returned # "none"
  /\ microtasks = <<>>
  /\ registered
  /\ Len(comps) < MaxComputes
  /\ comps' = Compute(reference, floating, options, middleware, comps)
  /\ lastCall' = Call(op, target, ComputeEffects(reference, floating), FALSE)
  /\ UNCHANGED <<reference, floating, userOptions, returned, options, middleware, microtasks,
                 style, listeners, observed, cleanups, domScrollParents, cleanupCalls, onCleanupCalls, placementCalls, unhandled>>

\* the window's resize event
WindowResize == Trigger("resize", Window, <<Window, "resize">> \in listeners)

\* the rectangle observer sees the reference's rectangle change
RectChange == Trigger("rect", "reference", observed)

\* (mutant) the scroll ancestors are looked up again at every event
Scroll_CurrentAncestors(el) ==
  Trigger("scroll", el,
          returned = "cleanup" /\ <<Window, "scroll">> \in listeners
            /\ el \in Range(domScrollParents))

\* a scroll event on el
Scroll(el) == Trigger("scroll", el, <<el, "scroll">> \in listeners)

\* the scroll ancestors of the reference change
DomChange(parents) ==
  /\ returned = "cleanup"
  /\ microtasks = <<>>
  /\ parents # domScrollParents
  /\ domScrollParents' = parents
  /\ lastCall' = Call("domChange", "", <<>>, FALSE)
  /\ UNCHANGED <<reference, floating, userOptions, returned, options, middleware, comps,
                 microtasks, style, listeners, observed, cleanups, cleanupCalls,
                 onCleanupCalls, placementCalls, unhandled>>

(* ------------------------------------------------------------------ *)
(* The solver and the promise reactions of compute()                    *)
(* ------------------------------------------------------------------ *)
HasSize(mw) == "size" \in Range(Names(mw))

\* computePosition(...) resolves; its `size` middleware has called apply()
SolverResolve(i, r) ==
  /\ i \in DOMAIN comps
  /\ comps[i].state = "pending"
  /\ comps' = [comps EXCEPT ![i].state = "fulfilled",
                            ![i].data = [x |-> r.x, y |-> r.y, placement |-> r.placement,
                                         referenceWidth |-> r.referenceWidth]]
  /\ microtasks' = Append(microtasks, [kind |-> "then1", comp |-> i])
  /\ IF HasSize(comps[i].args.middleware)
       THEN /\ style' = [style EXCEPT !.width = Px(r.referenceWidth), !.minWidth = "unset"]
            /\ lastCall' = Call("solverResolve", "", << <<"size.apply", "floating">> >>, FALSE)
       ELSE /\ style' = style
            /\ lastCall' = Call("solverResolve", "", <<>>, FALSE)
  /\ UNCHANGED <<reference, floating, userOptions, returned, options, middleware, listeners,
                 observed, cleanups, domScrollParents, cleanupCalls,
                 onCleanupCalls, placementCalls, unhandled>>

\* (mutant) a rejection tears the listeners down
SolverReject_Detaches(i) ==
  /\ i \in DOMAIN comps
  /\ comps[i].state = "pending"
  /\ comps' = [comps EXCEPT ![i].state = "rejected"]
  /\ unhandled' = unhandled \cup {i}
  /\ listeners' = {}
  /\ observed' = FALSE
  /\ lastCall' = Call("solverReject", "", <<>>, TRUE)
  /\ UNCHANGED <<reference, floating, userOptions, returned, options, middleware, microtasks,
                 style, cleanups, domScrollParents, cleanupCalls, onCleanupCalls,
                 placementCalls>>

\* computePosition(...) rejects: neither .then callback runs and nothing catches
SolverReject(i) ==
  /\ i \in DOMAIN comps
  /\ comps[i].state = "pending"
  /\ comps' = [comps EXCEPT ![i].state = "rejected"]
  /\ unhandled' = unhandled \cup {i}
  /\ lastCall' = Call("solverReject", "", <<>>, TRUE)
  /\ UNCHANGED <<reference, floating, userOptions, returned, options, middleware, microtasks,
                 style, listeners, observed, cleanups, domScrollParents, cleanupCalls, onCleanupCalls, placementCalls>>

\* (mutant) a result that resolves after the session was disposed of is dropped
Then1_SkipsAfterCleanup(i) ==
  /\ style' = IF cleanupCalls > 0
                THEN style
                ELSE [style EXCEPT !.left = Px(comps[i].data.x),
                                   !.top = Px(comps[i].data.y),
                                   !.position = comps[i].args.strategy.s]
  /\ comps' = [comps EXCEPT ![i].written = TRUE]
  /\ microtasks' = Append(Tail(microtasks), [kind |-> "then2", comp |-> i])
  /\ lastCall' = Call("then1", "", << <<"style", "floating">> >>, FALSE)
  /\ UNCHANGED placementCalls

\* (mutant) a result is dropped when a computation started later is already applied
Then1_DiscardsStale(i) ==
  /\ style' = IF \E j \in DOMAIN comps : j > i /\ comps[j].written
                THEN style
                ELSE [style EXCEPT !.left = Px(comps[i].data.x),
                                   !.top = Px(comps[i].data.y),
                                   !.position = comps[i].args.strategy.s]
  /\ comps' = [comps EXCEPT ![i].written = TRUE]
  /\ microtasks' = Append(Tail(microtasks), [kind |-> "then2", comp |-> i])
  /\ lastCall' = Call("then1", "", << <<"style", "floating">> >>, FALSE)
  /\ UNCHANGED placementCalls

\* (mutant) the position is written from the requested strategy's default
Then1_DefaultStrategy(i) ==
  /\ style' = [style EXCEPT !.left = Px(comps[i].data.x),
                            !.top = Px(comps[i].data.y),
                            !.position = defaultOptions.strategy.s]
  /\ comps' = [comps EXCEPT ![i].written = TRUE]
  /\ microtasks' = Append(Tail(microtasks), [kind |-> "then2", comp |-> i])
  /\ lastCall' = Call("then1", "", << <<"style", "floating">> >>, FALSE)
  /\ UNCHANGED placementCalls

\* the first .then callback: write the position, pass the data on
Then1(i) ==
  /\ style' = [style EXCEPT !.left = Px(comps[i].data.x),
                            !.top = Px(comps[i].data.y),
                            !.position = comps[i].args.strategy.s]
  /\ comps' = [comps EXCEPT ![i].written = TRUE]
  /\ microtasks' = Append(Tail(microtasks), [kind |-> "then2", comp |-> i])
  /\ lastCall' = Call("then1", "", << <<"style", "floating">> >>, FALSE)
  /\ UNCHANGED placementCalls

\* (mutant) onPlacementComplete is given the requested placement
Then2_RequestedPlacement(i) ==
  /\ microtasks' = Tail(microtasks)
  /\ IF Read(options.onPlacementComplete).t = "function"
       THEN /\ placementCalls' = Append(placementCalls,
                                        [comp |-> i, placement |-> comps[i].args.placement.s])
            /\ lastCall' = Call("then2", "",
                                << <<"onPlacementComplete", comps[i].args.placement.s>> >>, FALSE)
       ELSE /\ placementCalls' = placementCalls
            /\ lastCall' = Call("then2", "", <<>>, FALSE)
  /\ UNCHANGED <<style, comps>>

\* the second .then callback: options.onPlacementComplete?.(placement)
Then2(i) ==
  /\ microtasks' = Tail(microtasks)
  /\ IF Read(options.onPlacementComplete).t = "function"
       THEN /\ placementCalls' = Append(placementCalls,
                                        [comp |-> i, placement |-> comps[i].data.placement])
            /\ lastCall' = Call("then2", "",
                                << <<"onPlacementComplete", comps[i].data.placement>> >>, FALSE)
       ELSE /\ placementCalls' = placementCalls
            /\ lastCall' = Call("then2", "", <<>>, FALSE)
  /\ UNCHANGED <<style, comps>>

RunMicrotask ==
  /\ microtasks # <<>>
  /\ LET m == Head(microtasks)
     IN IF m.kind = "then1" THEN Then1(m.comp) ELSE Then2(m.comp)
  /\ UNCHANGED <<reference, floating, userOptions, returned, options, middleware, listeners,
                 observed, cleanups, domScrollParents, cleanupCalls,
                 onCleanupCalls, unhandled>>

(* ------------------------------------------------------------------ *)
(* The returned function                                                *)
(* ------------------------------------------------------------------ *)
\* noop()
noop ==
  /\ lastCall' = Call("cleanup", "", <<>>, FALSE)
  /\ UNCHANGED <<onCleanupCalls, listeners, observed>>

\* options.onCleanup?.(): whether there is a callback to call
CallsOnCleanup(o) == Read(o.onCleanup).t = "function"

\* (mutant) the triggers are detached first, onCleanup is called last
cleanup_DetachFirst ==
  LET calls == CallsOnCleanup(options)
      threw == calls /\ options.onCleanup.throws
      post == IF calls THEN << <<"onCleanup", "">> >> ELSE <<>>
  IN /\ onCleanupCalls' = IF calls THEN onCleanupCalls + 1 ELSE onCleanupCalls
     /\ listeners' = (listeners \ Detached(cleanups[1])) \ Detached(cleanups[2])
     /\ observed' = (observed /\ ~cleanups[1].defined)
     /\ lastCall' = Call("cleanup", "",
                         DetachEffects(cleanups[1]) \o DetachEffects(cleanups[2]) \o post,
                         threw)

\* cleanup()
cleanup ==
  LET calls == CallsOnCleanup(options)
      threw == calls /\ options.onCleanup.throws
      pre == IF calls THEN << <<"onCleanup", "">> >> ELSE <<>>
  IN /\ onCleanupCalls' = IF calls THEN onCleanupCalls + 1 ELSE onCleanupCalls
     /\ IF threw
          THEN /\ UNCHANGED <<listeners, observed>>
               /\ lastCall' = Call("cleanup", "", pre, TRUE)
          ELSE /\ listeners' = (listeners \ Detached(cleanups[1])) \ Detached(cleanups[2])
               /\ observed' = (observed /\ ~cleanups[1].defined)
               /\ lastCall' = Call("cleanup", "",
                                   pre \o DetachEffects(cleanups[1]) \o DetachEffects(cleanups[2]),
                                   FALSE)

CallReturned ==
  /\ returned # "none"
  /\ microtasks = <<>>
  /\ cleanupCalls < MaxCleanupCalls
  /\ cleanupCalls' = cleanupCalls + 1
  /\ IF returned = "noop" THEN noop ELSE cleanup
  /\ UNCHANGED <<reference, floating, userOptions, returned, options, middleware, comps,
                 microtasks, style, cleanups, domScrollParents, placementCalls,
                 unhandled>>

(* ------------------------------------------------------------------ *)
(* Specification                                                        *)
(* ------------------------------------------------------------------ *)
Next ==
  \/ \E ref \in Handles("reference"), flo \in Handles("floating"), user \in UserOptions :
       GetPlacement(ref, flo, user)
  \/ WindowResize
  \/ RectChange
  \/ \E el \in ScrollTargets : Scroll(el)
  \/ \E parents \in ScrollParentChoices : DomChange(parents)
  \/ \E i \in 1..MaxComputes, r \in SolverResults : SolverResolve(i, r)
  \/ \E i \in 1..MaxComputes : SolverReject(i)
  \/ RunMicrotask
  \/ CallReturned

Spec == Init /\ [][Next]_vars

(* ------------------------------------------------------------------ *)
(* Properties                                                           *)
(* ------------------------------------------------------------------ *)
Started == returned = "cleanup"

IsFunction(v) == v.t = "function"

EffectOps(c) == {c.effects[i][1] : i \in DOMAIN c.effects}

DetachOps == {"removeEventListener:resize", "removeEventListener:scroll", "unobserve"}
AttachOps == {"addEventListener:resize", "addEventListener:scroll", "observeElementRect"}

\* C1: when the reference or the floating handle is null at the call, no solver call
\* is made, nothing is attached, and calling the returned function any number of
\* times calls no onCleanup, detaches nothing and never writes the floating style.
C1_NullHandleIsNoop ==
  (returned # "none" /\ (reference = NULL \/ floating = NULL)) =>
    /\ returned = "noop"
    /\ comps = <<>>
    /\ microtasks = <<>>
    /\ listeners = {}
    /\ ~observed
    /\ onCleanupCalls = 0
    /\ placementCalls = <<>>
    /\ style = InitialStyle
    /\ lastCall.effects = <<>>
    /\ ~lastCall.threw

\* a null floating handle, every callback and trigger configured, the returned
\* function called as often as the bound allows
C1_Witness ==
  /\ returned = "noop"
  /\ reference # NULL
  /\ floating = NULL
  /\ IsFunction(userOptions.onCleanup)
  /\ IsFunction(userOptions.onPlacementComplete)
  /\ userOptions.eventListeners = Bool(TRUE)
  /\ cleanupCalls = MaxCleanupCalls

OnCleanupThrows == IsFunction(userOptions.onCleanup) /\ userOptions.onCleanup.throws

C3_OnCleanupAtMostOnce ==
  (Started /\ IsFunction(userOptions.onCleanup)) =>
    onCleanupCalls = (IF cleanupCalls >= 1 THEN 1 ELSE 0)

\* the value of an option after the defaults are merged, read off the caller's options
MergedGutter == IF userOptions.gutter = Absent THEN Num(8) ELSE userOptions.gutter
MergedFlip == IF userOptions.flip = Absent THEN Bool(TRUE) ELSE userOptions.flip
MergedSameWidth == IF userOptions.sameWidth = Absent THEN Bool(FALSE) ELSE userOptions.sameWidth
MergedEventListeners ==
  IF userOptions.eventListeners = Absent THEN Bool(TRUE) ELSE userOptions.eventListeners

GutterUnset == userOptions.gutter \in {Absent, Undefined}
OffsetSet == userOptions.offset.t = "object"
GutterTruthy == MergedGutter.t = "number" /\ MergedGutter.n # 0

\* the arguments the offset middleware of the session was built with
OffsetArgs == {middleware[i].arg : i \in {j \in DOMAIN middleware : middleware[j].name = "offset"}}

\* C4: with gutter left unset and an explicit offset object, the offset middleware
\* is built with exactly that object.
C4_ExplicitOffsetUsed ==
  (Started /\ GutterUnset /\ OffsetSet) => OffsetArgs = {userOptions.offset}

\* C5 (as claimed): whenever the caller sets gutter to a number, 0 included, an offset
\* middleware in the list has received {mainAxis: gutter}: the explicit offset is ignored.
C5_AsClaimed ==
  (Started /\ userOptions.gutter.t = "number") =>
    \A arg \in OffsetArgs :
      arg = [t |-> "object", mainAxis |-> userOptions.gutter, crossAxis |-> Absent]

\* C5 (amended): the offset middleware is in the list exactly when the merged gutter is
\* truthy or an offset is set, and at most once. With a truthy merged gutter (a
\* non-zero number, the default 8 included) it receives {mainAxis: gutter} with no
\* crossAxis, whatever the offset; with a falsy merged gutter (0 or undefined) and an
\* offset set it receives the explicit offset object.
C5_GutterPriority ==
  Started =>
    /\ (OffsetArgs # {}) <=> (GutterTruthy \/ OffsetSet)
    /\ Cardinality({j \in DOMAIN middleware : middleware[j].name = "offset"}) <= 1
    /\ GutterTruthy =>
         OffsetArgs = {[t |-> "object", mainAxis |-> MergedGutter, crossAxis |-> Absent]}
    /\ (~GutterTruthy /\ OffsetSet) => OffsetArgs = {userOptions.offset}

\* gutter 12 together with an explicit offset
C5_Witness ==
  /\ Started
  /\ userOptions.gutter = Num(12)
  /\ OffsetSet
  /\ OffsetArgs = {[t |-> "object", mainAxis |-> Num(12), crossAxis |-> Absent]}

FixedOrder ==
  <<"transformOrigin", "flip", "offset", "shift", "arrow", "positionArrow", "size">>

ArrowConfigured ==
  /\ userOptions.arrow.t = "object"
  /\ userOptions.arrow.element.t = "element"

Selected(name) ==
  CASE name = "transformOrigin" -> TRUE
    [] name = "flip" -> MergedFlip = Bool(TRUE)
    [] name = "offset" -> GutterTruthy \/ OffsetSet
    [] name = "shift" -> TRUE
    [] name \in {"arrow", "positionArrow"} -> ArrowConfigured
    [] name = "size" -> MergedSameWidth = Bool(TRUE)

\* C6: the middleware list is the subsequence of [transformOrigin, flip, offset, shift,
\* arrow, positionArrow, size] selected by the merged options, in that order, and
\* every solver call of the session is passed that same list.
C6_MiddlewareOrder ==
  Started =>
    /\ Names(middleware) = SelectSeq(FixedOrder, Selected)
    /\ \A i \in DOMAIN comps :
         /\ comps[i].args.middleware = middleware
         /\ comps[i].args.middleware = comps[1].args.middleware

\* two solver calls in a session without flip, with an offset, an arrow and sameWidth
C6_Witness ==
  /\ Started
  /\ Len(comps) = 2
  /\ Names(middleware) = <<"transformOrigin", "offset", "shift", "arrow", "positionArrow", "size">>

ResizeWanted ==
  \/ MergedEventListeners = Bool(TRUE)
  \/ MergedEventListeners.t = "object" /\ MergedEventListeners.resize = Bool(TRUE)

ScrollWanted ==
  \/ MergedEventListeners = Bool(TRUE)
  \/ MergedEventListeners.t = "object" /\ MergedEventListeners.scroll = Bool(TRUE)

JustStarted == Started /\ lastCall.op = "getPlacement"

ScrollAncestors == Range(domScrollParents)

\* C7: at session start the rectangle observer and the window's resize listener are
\* attached iff eventListeners is true or an object with resize true, and a scroll
\* listener is attached to a target iff it is a scroll ancestor of the reference and
\* eventListeners is true or an object with scroll true (the omitted option counts as
\* true). Nothing is ever attached later. With neither trigger wanted, no listener is
\* attached in any state, only the initial computation is started, and the returned
\* function detaches nothing.
C7_TriggersFollowOption ==
  /\ JustStarted =>
       /\ observed <=> ResizeWanted
       /\ (<<Window, "resize">> \in listeners) <=> ResizeWanted
       /\ \A el \in ScrollTargets :
            (<<el, "scroll">> \in listeners) <=> (ScrollWanted /\ el \in ScrollAncestors)
       /\ \A el \in ScrollTargets \ {Window} : <<el, "resize">> \notin listeners
  /\ Started =>
       /\ observed => ResizeWanted
       /\ \A l \in listeners : IF l[2] = "resize" THEN ResizeWanted ELSE ScrollWanted
  /\ (Started /\ ~ResizeWanted /\ ~ScrollWanted) =>
       /\ listeners = {}
       /\ ~observed
       /\ Len(comps) = 1
       /\ EffectOps(lastCall) \cap (DetachOps \cup AttachOps) = {}

\* the option omitted: both triggers attached, two scroll ancestors
C7_Witness ==
  /\ JustStarted
  /\ userOptions.eventListeners = Absent
  /\ observed
  /\ listeners = {<<Window, "resize">>, <<Window, "scroll">>, <<"scroller", "scroll">>}

\* the returned function called in a session started with eventListeners = false
C7_WitnessDisabled ==
  /\ Started
  /\ userOptions.eventListeners = Bool(FALSE)
  /\ lastCall.op = "cleanup"
  /\ onCleanupCalls = 1

ScrollOnly == Started /\ userOptions.eventListeners = ListenersObj(Bool(TRUE), Bool(FALSE))

\* the listeners a session holds until its returned function has detached them
Detaching == cleanupCalls >= 1 /\ ~OnCleanupThrows

\* C8: in a session started with eventListeners = {scroll: true, resize: false}, until
\* it is disposed of, exactly the scroll ancestors resolved at the start are listened
\* to; no resize event and no rectangle change ever runs compute; every scroll event
\* on a listened ancestor starts exactly one new solver call.
C8_ScrollOnly ==
  /\ [](ScrollOnly =>
          /\ ~observed
          /\ <<Window, "resize">> \notin listeners
          /\ lastCall.op \notin {"resize", "rect"}
          /\ ~Detaching => listeners = {<<cleanups[2].targets[i], "scroll">> :
                                          i \in DOMAIN cleanups[2].targets}
          /\ JustStarted => cleanups[2].targets = domScrollParents)
  /\ [][(ScrollOnly /\ lastCall'.op = "scroll") =>
          /\ Len(comps') = Len(comps) + 1
          /\ comps'[Len(comps')].state = "pending"
          /\ lastCall'.effects = << <<"computePosition", "">> >>
          /\ <<lastCall'.target, "scroll">> \in listeners]_vars

\* a scroll event on the outer of two scroll ancestors has started a computation
C8_Witness ==
  /\ ScrollOnly
  /\ lastCall.op = "scroll"
  /\ lastCall.target = Window
  /\ Len(cleanups[2].targets) = 2
  /\ Len(comps) = 2

ComputeCalls(c) == {i \in DOMAIN c.effects : c.effects[i][1] = "computePosition"}

\* C9: when getPlacement returns from a call with both handles, exactly one solver call
\* has been made, it was made before anything was attached, and its result is not
\* applied: left, top and position are unwritten and onPlacementComplete has not run.
C9_InitialCompute ==
  JustStarted =>
    /\ Len(comps) = 1
    /\ comps[1].state = "pending"
    /\ ~comps[1].written
    /\ ComputeCalls(lastCall) = {1}
    /\ microtasks = <<>>
    /\ style.left = Unwritten /\ style.top = Unwritten /\ style.position = Unwritten
    /\ placementCalls = <<>>

\* getPlacement has returned with both triggers attached
C9_Witness ==
  /\ JustStarted
  /\ Len(lastCall.effects) = 5
  /\ IsFunction(userOptions.onPlacementComplete)

Fulfilled == {i \in DOMAIN comps : comps[i].state = "fulfilled"}

PlacementCallsOf(i) == {k \in DOMAIN placementCalls : placementCalls[k].comp = i}

\* C10: a resolved computation writes left = x px, top = y px and position = strategy,
\* and only after that onPlacementComplete, if configured, is called, once, with that
\* computation's placement. onPlacementComplete is never called for a computation that
\* has not resolved or whose style write has not happened; once the queued callbacks
\* have run, it has been called once per resolved computation.
C10_ApplyThenNotify ==
  Started =>
    /\ \A i \in DOMAIN comps :
         /\ Cardinality(PlacementCallsOf(i)) <= 1
         /\ PlacementCallsOf(i) # {} => (i \in Fulfilled /\ comps[i].written)
         /\ comps[i].written => i \in Fulfilled
         /\ \A k \in PlacementCallsOf(i) : placementCalls[k].placement = comps[i].data.placement
    /\ \A k \in DOMAIN placementCalls : placementCalls[k].comp \in DOMAIN comps
    /\ Len(placementCalls) <= Cardinality(Fulfilled)
    /\ Cardinality(Fulfilled) <= Len(comps)
    /\ ~IsFunction(userOptions.onPlacementComplete) => placementCalls = <<>>
    /\ (IsFunction(userOptions.onPlacementComplete) /\ microtasks = <<>>) =>
         /\ Len(placementCalls) = Cardinality(Fulfilled)
         /\ \A i \in Fulfilled : comps[i].written
    /\ lastCall.op = "then1" =>
         LET i == microtasks[Len(microtasks)].comp
         IN /\ microtasks[Len(microtasks)].kind = "then2"
            /\ comps[i].written
            /\ PlacementCallsOf(i) = {}
            /\ style.left = ToString(comps[i].data.x) \o "px"
            /\ style.top = ToString(comps[i].data.y) \o "px"
            /\ style.position =
                 (IF userOptions.strategy = Absent THEN "absolute" ELSE userOptions.strategy.s)
            /\ comps[i].data.y = 62 => style.top = "62px"
    /\ lastCall.op = "then2" =>
         (IsFunction(userOptions.onPlacementComplete) =>
            /\ placementCalls # <<>>
            /\ lastCall.effects =
                 << <<"onPlacementComplete", placementCalls[Len(placementCalls)].placement>> >>)

\* two computations resolved with different placements, both applied and reported
C10_Witness ==
  /\ Started
  /\ Len(placementCalls) = 2
  /\ placementCalls[1].placement # placementCalls[2].placement
  /\ microtasks = <<>>
  /\ style.top = "62px"

Rejected == {i \in DOMAIN comps : comps[i].state = "rejected"}

\* C11: a rejected solver call leaves the style alone, calls no onPlacementComplete
\* and leaves no uncaught error behind.
C11_RejectionContained ==
  Started =>
    \A i \in Rejected :
      /\ ~comps[i].written
      /\ PlacementCallsOf(i) = {}
      /\ i \notin unhandled

LastNotified == placementCalls[Len(placementCalls)].comp

\* C12: results are applied in the order they resolve, with no check of the start
\* order: once the queued callbacks have run, left and top are those of the computation
\* whose onPlacementComplete call came last, also when a computation started after it
\* was applied before it.
C12_ResolutionOrder ==
  (Started /\ microtasks = <<>> /\ placementCalls # <<>>) =>
    /\ style.left = ToString(comps[LastNotified].data.x) \o "px"
    /\ style.top = ToString(comps[LastNotified].data.y) \o "px"
    /\ placementCalls[Len(placementCalls)].placement = comps[LastNotified].data.placement

\* B, started second, resolved first: the style and the last onPlacementComplete are
\* those of A, the stale computation
C12_Witness ==
  /\ Started
  /\ microtasks = <<>>
  /\ Len(placementCalls) = 2
  /\ placementCalls[1].comp = 2
  /\ placementCalls[2].comp = 1
  /\ comps[1].data.y = 128 /\ comps[2].data.y = 62
  /\ style.top = "128px"
  /\ placementCalls[2].placement = "bottom"

OnPlacementCompleteSet == IsFunction(userOptions.onPlacementComplete)

\* C13: disposal cancels nothing in flight. The call of the returned function leaves
\* the computations and the queued callbacks as they are; in a disposed session a
\* solver call that resolves still queues its callbacks, which still write left, top
\* and position and still call onPlacementComplete; only new computations are no
\* longer started.
C13_InFlightSurvivesCleanup ==
  /\ [][(Started /\ lastCall'.op = "cleanup") =>
          /\ comps' = comps
          /\ microtasks' = microtasks
          /\ style' = style
          /\ placementCalls' = placementCalls]_vars
  /\ [][(Started /\ Detaching) =>
          /\ Len(comps') = Len(comps)
          /\ lastCall'.op = "solverResolve" => Len(microtasks') = Len(microtasks) + 1
          /\ lastCall'.op = "then1" =>
               LET i == Head(microtasks).comp
               IN /\ comps'[i].written
                  /\ style'.left = ToString(comps[i].data.x) \o "px"
                  /\ style'.top = ToString(comps[i].data.y) \o "px"
                  /\ style'.position = comps[i].args.strategy.s
          /\ (lastCall'.op = "then2" /\ OnPlacementCompleteSet) =>
               /\ Len(placementCalls') = Len(placementCalls) + 1
               /\ placementCalls'[Len(placementCalls')].comp = Head(microtasks).comp]_vars

\* onCleanup has run, and after it the initial computation resolved, wrote the style
\* and was reported to onPlacementComplete
C13_Witness ==
  /\ Started
  /\ Detaching
  /\ onCleanupCalls = 1
  /\ lastCall.op = "then2"
  /\ Len(comps) = 1
  /\ placementCalls = << [comp |-> 1, placement |-> "top"] >>
  /\ style.top = "62px"

AllRegistrations ==
  {<<cleanups[1].targets[i], "resize">> : i \in DOMAIN cleanups[1].targets}
    \cup {<<cleanups[2].targets[i], "scroll">> : i \in DOMAIN cleanups[2].targets}

OnCleanupIndexes(c) == {i \in DOMAIN c.effects : c.effects[i][1] = "onCleanup"}

TriggerOps == {"resize", "rect", "scroll"}

\* C14: in a call of the returned function onCleanup, if configured, is called first
\* and once, and the triggers are detached after it; an entry of a trigger that was
\* never attached is skipped, without error. When onCleanup throws, the call ends with
\* nothing detached: every listener of the session stays attached and a later trigger
\* still starts a computation.
C14_OnCleanupFirst ==
  /\ []((Started /\ lastCall.op = "cleanup") =>
          /\ OnCleanupIndexes(lastCall) = (IF IsFunction(userOptions.onCleanup) THEN {1} ELSE {})
          /\ lastCall.threw <=> OnCleanupThrows
          /\ ~lastCall.threw =>
               /\ listeners = {}
               /\ ~observed
               /\ ("unobserve" \in EffectOps(lastCall)) <=> cleanups[1].defined
               /\ ("removeEventListener:resize" \in EffectOps(lastCall)) <=> cleanups[1].defined
               /\ ("removeEventListener:scroll" \in EffectOps(lastCall)) <=> cleanups[2].defined
          /\ lastCall.threw => EffectOps(lastCall) = {"onCleanup"})
  /\ []((Started /\ OnCleanupThrows) =>
          /\ listeners = AllRegistrations
          /\ observed <=> cleanups[1].defined)
  /\ [][(Started /\ OnCleanupThrows /\ lastCall'.op \in TriggerOps) =>
          Len(comps') = Len(comps) + 1]_vars

\* onCleanup threw, and a scroll event after it started a second computation
C14_Witness ==
  /\ Started
  /\ OnCleanupThrows
  /\ onCleanupCalls >= 1
  /\ lastCall.op = "scroll"
  /\ Len(comps) = 2
  /\ observed

ScrollEffectTargets(c, op) ==
  {c.effects[i][2] : i \in {j \in DOMAIN c.effects : c.effects[j][1] = op}}

\* C15: every resize event, rectangle change and scroll event that reaches the session
\* starts exactly one new computation; until the session is disposed of, the window's
\* resize listener and the rectangle observer are active when the resize trigger is
\* wanted, and a scroll listener is on exactly the scroll ancestors resolved at the
\* start when the scroll trigger is wanted. A change of the scroll ancestors attaches
\* and detaches nothing, and disposal removes the scroll listeners of exactly the
\* ancestors resolved at the start.
C15_OneComputePerEvent ==
  /\ [][(Started /\ lastCall'.op \in TriggerOps) =>
          /\ Len(comps') = Len(comps) + 1
          /\ ComputeCalls(lastCall') = {1}
          /\ Len(lastCall'.effects) = 1
          /\ lastCall'.op = "resize" => <<Window, "resize">> \in listeners
          /\ lastCall'.op = "rect" => observed
          /\ lastCall'.op = "scroll" =>
               /\ <<lastCall'.target, "scroll">> \in listeners
               /\ lastCall'.target \in Range(cleanups[2].targets)]_vars
  /\ [][Started => cleanups' = cleanups]_vars
  /\ [][lastCall'.op = "domChange" =>
          /\ listeners' = listeners
          /\ observed' = observed
          /\ domScrollParents' # domScrollParents]_vars
  /\ [][(Started /\ lastCall'.op = "cleanup" /\ ~lastCall'.threw) =>
          /\ ScrollEffectTargets(lastCall', "removeEventListener:scroll")
               = Range(cleanups[2].targets)
          /\ listeners' = {}]_vars
  /\ [](JustStarted =>
          /\ ScrollWanted => cleanups[2].targets = domScrollParents
          /\ ~ScrollWanted => cleanups[2].targets = <<>>)
  /\ []((Started /\ ~Detaching) =>
          /\ listeners = AllRegistrations
          /\ observed <=> ResizeWanted
          /\ (<<Window, "resize">> \in listeners) <=> ResizeWanted)

\* "scroller" became a scroll ancestor after the start: it is not listened to, and the
\* returned function removed the window's scroll listener only
C15_Witness ==
  /\ Started
  /\ "scroller" \in Range(domScrollParents)
  /\ cleanups[2].targets = <<Window>>
  /\ Len(comps) = 2
  /\ lastCall.op = "cleanup"
  /\ ~lastCall.threw
  /\ ScrollEffectTargets(lastCall, "removeEventListener:scroll") = {Window}

SameWidthWanted == MergedSameWidth = Bool(TRUE)

\* C16: with sameWidth enabled, a computation whose size middleware runs sets the
\* floating element's width to the reference width reported for it, followed by px,
\* and minWidth to unset; with sameWidth disabled or omitted, width and minWidth are
\* never written.
C16_SameWidth ==
  Started =>
    /\ ~SameWidthWanted => (style.width = Unwritten /\ style.minWidth = Unwritten)
    /\ (SameWidthWanted /\ lastCall.op = "solverResolve") =>
         LET i == microtasks[Len(microtasks)].comp
         IN /\ style.width = ToString(comps[i].data.referenceWidth) \o "px"
            /\ comps[i].data.referenceWidth = 200 => style.width = "200px"
            /\ style.minWidth = "unset"
            /\ lastCall.effects = << <<"size.apply", "floating">> >>
    /\ (SameWidthWanted /\ Fulfilled # {}) =>
         /\ style.minWidth = "unset"
         /\ \E i \in Fulfilled : style.width = ToString(comps[i].data.referenceWidth) \o "px"
    /\ (SameWidthWanted /\ Fulfilled = {}) =>
         (style.width = Unwritten /\ style.minWidth = Unwritten)

\* a computation resolved with a reference 200 wide in a session with sameWidth
C16_Witness ==
  /\ Started
  /\ userOptions.sameWidth = Bool(TRUE)
  /\ lastCall.op = "solverResolve"
  /\ style.width = "200px"
  /\ style.minWidth = "unset"

\* C17: the listeners and the rectangle observer change only in getPlacement and in
\* the returned function; the middleware list and the merged options of a session
\* never change; left, top and position are written only by the first callback of a
\* resolved computation.
C17_Frame ==
  /\ [][lastCall'.op \notin {"getPlacement", "cleanup"} =>
          (listeners' = listeners /\ observed' = observed)]_vars
  /\ [][Started =>
          (middleware' = middleware /\ options' = options /\ userOptions' = userOptions)]_vars
  /\ [][lastCall'.op # "then1" =>
          /\ style'.left = style.left
          /\ style'.top = style.top
          /\ style'.position = style.position]_vars
  /\ [][lastCall'.op \in {"then1", "then2", "solverResolve", "solverReject"} =>
          Len(comps') = Len(comps)]_vars

\* a rejection, with every listener of the session still attached
C17_Witness ==
  /\ Started
  /\ lastCall.op = "solverReject"
  /\ Len(comps) = 2
  /\ observed
  /\ Cardinality(listeners) = 3
  /\ style.top = "62px"

====
